---- MODULE Spec2Model ----
(***************************************************************************)
(* State-machine model of main.py: run_full_research and the two agents it *)
(* chains (ResearchAgent: Tavily search + Groq summaries, AnalystAgent:    *)
(* Gemini report).                                                         *)
(*                                                                         *)
(* Texts are sequences of string tokens; an f-string is the concatenation  *)
(* of its literal pieces and its arguments.  Fixed literals are cut at the *)
(* places the properties look at (after "# Research Failed", after         *)
(* "Missing ", between key names), and a search result's content is a      *)
(* sequence of one-character tokens so that the slice [:1500] is a slice.  *)
(* Every external call (secret lookup, client construction, search, model  *)
(* invocation) is one entry of the history variable log.  Errors raised by *)
(* the collaborators are instances of Exception.                           *)
(***************************************************************************)
EXTENDS Integers, Sequences, FiniteSets, TLC

VARIABLES
    secrets,     \* st.secrets: key name -> value (None when the key is not set)
    environ,     \* os.environ: key name -> value (None when the key is not set)
    topic,       \* the argument of run_full_research
    pc,          \* position of the single thread of control
    qi,          \* index (1..3) of the sub-query the loop of research_topic is at
    web_data,    \* research_topic's local web_data
    summaries,   \* research_topic's local summaries
    data,        \* run_full_research's local data (research_topic's return value)
    result,      \* the value run_full_research returned
    handled,     \* the functions whose except clause ran in this run
    log          \* the external calls of this run, in order

vars == <<secrets, environ, topic, pc, qi, web_data, summaries, data, result, handled, log>>

-----------------------------------------------------------------------------
(* Bounds of the model *)

\* the search provider returns at most this many results per query
MaxItems == 1

-----------------------------------------------------------------------------
(* Texts *)

None == <<>>

Min(a, b) == IF a < b THEN a ELSE b

\* Python truthiness of an Optional[str]: None and "" are falsy
Truthy(v) == v # None /\ v # <<"">>

\* "sub in text" on token sequences
Contains(text, sub) ==
    \E k \in 0..(Len(text) - Len(sub)) : SubSeq(text, k + 1, k + Len(sub)) = sub

StartsWith(text, pre) ==
    Len(pre) <= Len(text) /\ SubSeq(text, 1, Len(pre)) = pre

RECURSIVE JoinLeading(_, _)
JoinLeading(sep, parts) ==
    IF parts = <<>> THEN <<>>
    ELSE sep \o Head(parts) \o JoinLeading(sep, Tail(parts))

\* str.join
RECURSIVE Join(_, _)
Join(sep, parts) ==
    IF parts = <<>> THEN <<>>
    ELSE IF Len(parts) = 1 THEN parts[1]
    ELSE parts[1] \o sep \o Join(sep, Tail(parts))

\* dict.get(key, default)
Get(d, key, default) == IF key \in DOMAIN d THEN d[key] ELSE default

-----------------------------------------------------------------------------
(* The environment: credentials, topics and what the providers may answer *)

KeyNames == {"GROQ_API_KEY", "TAVILY_API_KEY", "GEMINI_API_KEY"}

SecretValues == {None, <<"">>, <<"k">>}
EnvValues == {None, <<"">>, <<"k">>}

\* how one key may be configured: set nowhere, set (empty or not) in the
\* environment only, set in the secret store only, or set empty in the
\* secret store and non-empty in the environment
CredentialSources == {
    [secret |-> None,    env |-> None],
    [secret |-> None,    env |-> <<"">>],
    [secret |-> None,    env |-> <<"k">>],
    [secret |-> <<"k">>, env |-> None],
    [secret |-> <<"">>,  env |-> <<"k">>] }

Topics == {<<"T">>, <<"AI in Healthcare">>}

\* messages of the errors a collaborator may raise
ErrorMessages == {<<"fail">>}

NA == <<"N", "/", "A">>

\* result records of the search provider (keys may be missing)
Items == {
    [title |-> <<"T">>, content |-> <<"C">>, url |-> <<"U">>],
    [content |-> <<"C", "C">>] }

RECURSIVE SeqsUpTo(_, _)
SeqsUpTo(S, n) ==
    IF n = 0 THEN {<<>>}
    ELSE LET shorter == SeqsUpTo(S, n - 1)
         IN  shorter \cup {Append(s, x) : s \in {t \in shorter : Len(t) = n - 1}, x \in S}

\* the responses of tavily.search: a dict with or without "results"
SearchResponses ==
    {[results |-> l] : l \in SeqsUpTo(Items, MaxItems)} \cup {[answer |-> <<>>]}

\* resp.content of the research model
ModelOutputs == {<<"sum">>, <<"s2">>}

\* resp.text of the report model
ReportOutputs == {<<"## Report">>}

\* datetime.now().strftime('%Y-%m-%d')
Dates == {<<"2025-01-01">>}

-----------------------------------------------------------------------------
(* Literals of main.py *)

NoResults == <<"No results.">>

CouldNotFind == <<"Could not find sufficient information on the topic.">>

Separator == <<"\n\n---\n\n">>

\* it.get('content', 'N/A')[:1500]
ContentLimit == 1500

SystemInstruction == <<"You are an expert research analyst.">>

MissingResearchKeys == <<"Missing ", "GROQ_API_KEY", " or ", "TAVILY_API_KEY">>

MissingGeminiKey == <<"Missing ", "GEMINI_API_KEY">>

\* the three sub-queries of research_topic, in order
Queries(t) == <<
    t \o <<" recent developments">>,
    t \o <<" key players and companies">>,
    t \o <<" major challenges and opportunities">> >>

\* a loop with one sub-query too many
QueriesExtra(t) == Append(Queries(t), t \o <<" recent developments">>)

\* the list research_topic iterates over
SubQueries(t) == Queries(t)

-----------------------------------------------------------------------------
(* Credentials *)

\* st.secrets.get(key, os.getenv(key)): the secret wins whenever it is set
Lookup(key) == IF secrets[key] # None THEN secrets[key] ELSE environ[key]

ResearchKeysEither(groq, tavily) == Truthy(groq) \/ Truthy(tavily)

\* ResearchAgent.__init__: not (not (groq and tavily))
ResearchKeysPresent(groq, tavily) == Truthy(groq) /\ Truthy(tavily)

\* AnalystAgent.__init__: not (not gemini_key)
GeminiKeyPresent(gemini) == Truthy(gemini)

-----------------------------------------------------------------------------
(* Exceptions and the try blocks that catch them *)

Exc(type, msg) == [type |-> type, msg |-> msg]

\* run_full_research without its try block
EnclosingTryNoOuter(site) ==
    CASE site = "tavily.search"    -> <<"_search_web", "research_topic">>
      [] site = "llm.invoke"       -> <<"research_topic">>
      [] site = "generate_content" -> <<"create_report">>
      [] OTHER                     -> <<>>

\* create_report without its try block
EnclosingTryNoReportTry(site) ==
    CASE site = "tavily.search"    -> <<"_search_web", "research_topic", "run_full_research">>
      [] site = "llm.invoke"       -> <<"research_topic", "run_full_research">>
      [] site = "generate_content" -> <<"run_full_research">>
      [] OTHER                     -> <<"run_full_research">>

\* research_topic without its try block
EnclosingTryNoResearchTry(site) ==
    CASE site = "tavily.search"    -> <<"_search_web", "run_full_research">>
      [] site = "llm.invoke"       -> <<"run_full_research">>
      [] site = "generate_content" -> <<"create_report", "run_full_research">>
      [] OTHER                     -> <<"run_full_research">>

\* the functions whose try ... except Exception encloses a call site, innermost
\* first; every site other than the three provider calls is part of
\* ResearchSystem(), called inside run_full_research's try
EnclosingTry(site) ==
    CASE site = "tavily.search"    -> <<"_search_web", "research_topic", "run_full_research">>
      [] site = "llm.invoke"       -> <<"research_topic", "run_full_research">>
      [] site = "generate_content" -> <<"create_report", "run_full_research">>
      [] OTHER                     -> <<"run_full_research">>

\* the function whose except clause receives an error raised at site
Catcher(site) ==
    IF EnclosingTry(site) = <<>> THEN "uncaught" ELSE Head(EnclosingTry(site))

\* except clause of _search_web
SearchFailed(e) == <<"Search failed", ": ">> \o e.msg

ResearchFailedPartial(e, sums) ==
    Join(Separator, Append(sums, <<"Research failed", ": ">> \o e.msg))

\* except clause of research_topic (sums: the summaries collected so far)
ResearchFailed(e, sums) == <<"Research failed", ": ">> \o e.msg

\* except clause of create_report
ReportFailed(e) == <<"Report generation failed", ": ">> \o e.msg

\* except clause of run_full_research
FailedDocument(e) ==
    <<"# Research Failed", "\n\nAn unexpected error occurred: ">> \o e.msg \o <<"\n">>

-----------------------------------------------------------------------------
(* The history of external calls *)

\* one call: where, for which sub-query (0: none), with which argument,
\* whether it raised, what it returned (the error message when it raised)
\* and, for a search, how many results came back
Call(site, q, arg, raised, ret, n) ==
    [site |-> site, q |-> q, arg |-> arg, raised |-> raised, ret |-> ret, n |-> n]

Calls(site) == {k \in 1..Len(log) : log[k].site = site}

\* the entries of the history at one site, in order
CallsAt(site) == SelectSeq(log, LAMBDA c : c.site = site)

-----------------------------------------------------------------------------
(* ResearchAgent *)

ResearchInitFaults == {"none", "GROQ_API_KEY", "TAVILY_API_KEY", "ChatGroq", "TavilyClient"}

LookupCall(key, fault, msg) ==
    IF fault = key THEN Call("secrets.get", 0, <<key>>, TRUE, msg, 0)
    ELSE Call("secrets.get", 0, <<key>>, FALSE, Lookup(key), 0)

ClientCall(site, key, fault, msg) ==
    IF fault = site THEN Call(site, 0, key, TRUE, msg, 0)
    ELSE Call(site, 0, key, FALSE, <<>>, 0)

\* ResearchAgent.__init__ when the call named by fault (if it is reached)
\* raises Exception(msg): the error that leaves the constructor (None: the
\* agent is built) and the external calls made
ResearchAgentInit(fault, msg) ==
    LET groq   == Lookup("GROQ_API_KEY")
        tavily == Lookup("TAVILY_API_KEY")
        c1 == LookupCall("GROQ_API_KEY", fault, msg)
        c2 == LookupCall("TAVILY_API_KEY", fault, msg)
        c3 == ClientCall("ChatGroq", groq, fault, msg)
        c4 == ClientCall("TavilyClient", tavily, fault, msg)
    IN  IF c1.raised THEN [exc |-> Exc("Exception", msg), calls |-> <<c1>>]
        ELSE IF c2.raised THEN [exc |-> Exc("Exception", msg), calls |-> <<c1, c2>>]
        ELSE IF ~ResearchKeysPresent(groq, tavily)
             THEN [exc |-> Exc("ValueError", MissingResearchKeys), calls |-> <<c1, c2>>]
        ELSE IF c3.raised THEN [exc |-> Exc("Exception", msg), calls |-> <<c1, c2, c3>>]
        ELSE IF c4.raised THEN [exc |-> Exc("Exception", msg), calls |-> <<c1, c2, c3, c4>>]
        ELSE [exc |-> None, calls |-> <<c1, c2, c3, c4>>]

\* text[:n]
Slice(text, n) == SubSeq(text, 1, Min(Len(text), n))

\* one element of out in _search_web
FormatItem(it) ==
    <<"Title: ">> \o Get(it, "title", NA) \o <<"\n", "Content: ">>
        \o Slice(Get(it, "content", NA), ContentLimit)
        \o <<"\n", "URL: ">> \o Get(it, "url", NA) \o <<"\n---">>

\* the try body of _search_web, given the provider's response
FormatResponse(resp) ==
    LET items == Get(resp, "results", <<>>)
    IN  IF items = <<>> THEN NoResults
        ELSE Join(<<"\n">>, [k \in 1..Len(items) |-> FormatItem(items[k])])

\* research_topic: web_data == "No results."  (continue)
Skips(text) == text = NoResults

\* the prompt research_topic builds for one sub-query
ResearchPrompt(t, q, text) ==
    <<"You are an expert researcher. Synthesize this data on '">> \o t \o <<"':\n\n", "Query: ">>
        \o q \o <<"\n">> \o text \o <<"\n">>
        \o <<"Provide a concise, factual summary based *only* on the provided data (max 250 words).">>

\* messages = [SystemMessage(...), HumanMessage(prompt)]
Messages(t, q, text) == SystemInstruction \o ResearchPrompt(t, q, text)

ResearchReturnJoinOnly(sums) == Join(Separator, sums)

ResearchReturnLeading(sums) ==
    IF sums = <<>> THEN CouldNotFind ELSE JoinLeading(Separator, sums)

\* research_topic after its loop
ResearchReturn(sums) ==
    IF sums = <<>> THEN CouldNotFind ELSE Join(Separator, sums)

-----------------------------------------------------------------------------
(* AnalystAgent *)

AnalystInitFaults == {"none", "GEMINI_API_KEY", "genai.configure", "GenerativeModel"}

\* AnalystAgent.__init__, as ResearchAgentInit
AnalystAgentInit(fault, msg) ==
    LET gemini == Lookup("GEMINI_API_KEY")
        c1 == LookupCall("GEMINI_API_KEY", fault, msg)
        c2 == ClientCall("genai.configure", gemini, fault, msg)
        c3 == ClientCall("GenerativeModel", <<"gemini-1.5-flash-latest">>, fault, msg)
    IN  IF c1.raised THEN [exc |-> Exc("Exception", msg), calls |-> <<c1>>]
        ELSE IF ~GeminiKeyPresent(gemini)
             THEN [exc |-> Exc("ValueError", MissingGeminiKey), calls |-> <<c1>>]
        ELSE IF c2.raised THEN [exc |-> Exc("Exception", msg), calls |-> <<c1, c2>>]
        ELSE IF c3.raised THEN [exc |-> Exc("Exception", msg), calls |-> <<c1, c2, c3>>]
        ELSE [exc |-> None, calls |-> <<c1, c2, c3>>]

\* the prompt create_report builds
ReportPrompt(research_data, t, date) ==
    <<"You are a senior research analyst. Create a detailed, well-structured markdown report on '">>
        \o t \o <<"'.\n\n">>
        \o <<"Use the following research summaries to construct your report. Adhere strictly to the provided information.\n\n">>
        \o <<"Include the following sections:\n", "- **Executive Summary**\n", "- **Key Findings**\n",
             "- **Detailed Analysis**\n", "- **Conclusions & Recommendations**\n\n">>
        \o <<"--- RESEARCH DATA START ---\n">> \o research_data \o <<"\n--- RESEARCH DATA END ---\n\n">>
        \o <<"Current date: ">> \o date

ReportTextWithHeading(text) == <<"# Report\n\n">> \o text

\* create_report: return resp.text
ReportText(text) == text

-----------------------------------------------------------------------------
(* The run *)

TypeOK ==
    /\ secrets \in [KeyNames -> SecretValues]
    /\ environ \in [KeyNames -> EnvValues]
    /\ topic \in Topics
    /\ pc \in {"not_started", "init_researcher", "init_analyst", "search", "invoke",
               "report", "done", "escaped"}
    /\ qi \in 1..4
    /\ handled \subseteq {"_search_web", "research_topic", "create_report", "run_full_research"}

Init ==
    /\ \E src \in [KeyNames -> CredentialSources] :
          /\ secrets = [key \in KeyNames |-> src[key].secret]
          /\ environ = [key \in KeyNames |-> src[key].env]
    /\ topic \in Topics
    /\ pc = "not_started"
    /\ qi = 1
    /\ web_data = None
    /\ summaries = <<>>
    /\ data = None
    /\ result = None
    /\ handled = {}
    /\ log = <<>>

\* An error e raised at site reaches the nearest enclosing except clause,
\* which turns it into a return value of its function.
Propagate(site, e) ==
    LET c == Catcher(site)
    IN  /\ handled' = IF c = "uncaught" THEN handled ELSE handled \cup {c}
        /\ CASE c = "research_topic" ->
                  /\ data' = ResearchFailed(e, summaries)
                  /\ pc' = "report"
                  /\ result' = result
             [] c = "create_report" ->
                  /\ result' = ReportFailed(e)
                  /\ pc' = "done"
                  /\ data' = data
             [] c = "run_full_research" ->
                  /\ result' = FailedDocument(e)
                  /\ pc' = "done"
                  /\ data' = data
             [] OTHER ->
                  /\ pc' = "escaped"
                  /\ UNCHANGED <<data, result>>

\* The end of one pass of the for loop of research_topic with summaries sums:
\* the next sub-query, or the code after the loop and the return.
NextIteration(sums) ==
    IF qi < Len(SubQueries(topic))
    THEN /\ qi' = qi + 1
         /\ pc' = "search"
         /\ data' = data
    ELSE /\ qi' = qi
         /\ pc' = "report"
         /\ data' = ResearchReturn(sums)

\* run_full_research(topic) is called
Start ==
    /\ pc = "not_started"
    /\ pc' = "init_researcher"
    /\ UNCHANGED <<secrets, environ, topic, qi, web_data, summaries, data, result, handled, log>>

\* ResearchSystem.__init__: self.researcher = ResearchAgent()
InitResearchAgent ==
    /\ pc = "init_researcher"
    /\ \E fault \in ResearchInitFaults, msg \in ErrorMessages :
          LET r == ResearchAgentInit(fault, msg)
          IN  /\ log' = log \o r.calls
              /\ IF r.exc = None
                 THEN /\ pc' = "init_analyst"
                      /\ UNCHANGED <<data, result, handled>>
                 ELSE Propagate("ResearchAgent", r.exc)
    /\ UNCHANGED <<secrets, environ, topic, qi, web_data, summaries>>

\* ResearchSystem.__init__: self.analyst = AnalystAgent()
InitAnalystAgent ==
    /\ pc = "init_analyst"
    /\ \E fault \in AnalystInitFaults, msg \in ErrorMessages :
          LET r == AnalystAgentInit(fault, msg)
          IN  /\ log' = log \o r.calls
              /\ IF r.exc = None
                 THEN /\ pc' = "search"
                      /\ UNCHANGED <<data, result, handled>>
                 ELSE Propagate("AnalystAgent", r.exc)
    /\ UNCHANGED <<secrets, environ, topic, qi, web_data, summaries>>

\* research_topic: web_data = self._search_web(q) and the test that follows
SearchWeb ==
    /\ pc = "search"
    /\ \E raised \in BOOLEAN, resp \in SearchResponses, msg \in ErrorMessages :
          LET q    == SubQueries(topic)[qi]
              e    == Exc("Exception", msg)
              call == IF raised THEN Call("tavily.search", qi, q, TRUE, msg, 0)
                      ELSE Call("tavily.search", qi, q, FALSE, <<>>,
                                Len(Get(resp, "results", <<>>)))
              text == IF raised THEN SearchFailed(e) ELSE FormatResponse(resp)
          IN  /\ log' = Append(log, call)
              /\ IF raised /\ Catcher("tavily.search") # "_search_web"
                 THEN /\ Propagate("tavily.search", e)
                      /\ UNCHANGED <<qi, web_data>>
                 ELSE /\ web_data' = text
                      /\ handled' = IF raised THEN handled \cup {"_search_web"} ELSE handled
                      /\ result' = result
                      /\ IF Skips(text)
                         THEN NextIteration(summaries)
                         ELSE /\ pc' = "invoke"
                              /\ UNCHANGED <<qi, data>>
    /\ UNCHANGED <<secrets, environ, topic, summaries>>

\* research_topic: resp = self.llm.invoke(messages); summaries.append(resp.content)
Invoke ==
    /\ pc = "invoke"
    /\ \E raised \in BOOLEAN, out \in ModelOutputs, msg \in ErrorMessages :
          LET q    == SubQueries(topic)[qi]
              arg  == Messages(topic, q, web_data)
          IN  IF raised
              THEN /\ log' = Append(log, Call("llm.invoke", qi, arg, TRUE, msg, 0))
                   /\ Propagate("llm.invoke", Exc("Exception", msg))
                   /\ UNCHANGED <<qi, summaries>>
              ELSE /\ log' = Append(log, Call("llm.invoke", qi, arg, FALSE, out, 0))
                   /\ summaries' = Append(summaries, out)
                   /\ NextIteration(Append(summaries, out))
                   /\ UNCHANGED <<result, handled>>
    /\ UNCHANGED <<secrets, environ, topic, web_data>>

\* run_full_research: report = system.analyst.create_report(data, topic); return report
CreateReport ==
    /\ pc = "report"
    /\ \E raised \in BOOLEAN, out \in ReportOutputs, msg \in ErrorMessages, date \in Dates :
          LET arg == ReportPrompt(data, topic, date)
          IN  IF raised
              THEN /\ log' = Append(log, Call("generate_content", 0, arg, TRUE, msg, 0))
                   /\ Propagate("generate_content", Exc("Exception", msg))
              ELSE /\ log' = Append(log, Call("generate_content", 0, arg, FALSE, out, 0))
                   /\ result' = ReportText(out)
                   /\ pc' = "done"
                   /\ UNCHANGED <<data, handled>>
    /\ UNCHANGED <<secrets, environ, topic, qi, web_data, summaries>>

Next ==
    \/ Start
    \/ InitResearchAgent
    \/ InitAnalystAgent
    \/ SearchWeb
    \/ Invoke
    \/ CreateReport

Spec == Init /\ [][Next]_vars

-----------------------------------------------------------------------------
(* Vocabulary of the properties *)

ProviderSites == {"tavily.search", "llm.invoke", "generate_content"}

\* a credential is absent when its lookup yields None or ""
Absent(key) == ~Truthy(Lookup(key))

AllCredentialsPresent == \A key \in KeyNames : ~Absent(key)

\* no external call of the run has raised so far
NoRaise == \A k \in 1..Len(log) : ~log[k].raised

\* no secret lookup and no client constructor has raised
QuietConstruction ==
    \A k \in 1..Len(log) : log[k].site \notin ProviderSites => ~log[k].raised

\* both agents were constructed
Built == \E k \in 1..Len(log) : log[k].site = "GenerativeModel" /\ ~log[k].raised

\* research_topic has returned
ResearchReturned == Built /\ pc \in {"report", "done"}

\* the outputs of the research model so far, in call order
Outputs == [k \in 1..Len(CallsAt("llm.invoke")) |-> CallsAt("llm.invoke")[k].ret]

\* the sub-queries whose search response is not the "No results." sentinel
WithData == {log[k].q : k \in {j \in Calls("tavily.search") : log[j].raised \/ log[j].n > 0}}

\* the text between the research-data markers of the report prompt
Embedded(text) ==
    <<"--- RESEARCH DATA START ---\n">> \o text \o <<"\n--- RESEARCH DATA END ---\n\n">>

-----------------------------------------------------------------------------
(* C1 *)

\* C1: whatever the credential lookups, the client constructors, the search
\* provider and the two models do (return or raise), no exception escapes
\* run_full_research: the run can always go on until it has returned, and
\* what it returns is a text.
C1_NeverRaises ==
    /\ pc # "escaped"
    /\ pc = "done" \/ ENABLED Next
    /\ pc = "done" => Len(result) > 0

\* a run in which a constructor raised and run_full_research returned
C1_Witness ==
    /\ pc = "done"
    /\ \E k \in 1..Len(log) : log[k].site = "ChatGroq" /\ log[k].raised
    /\ result = FailedDocument(Exc("Exception", <<"fail">>))

-----------------------------------------------------------------------------
(* C2 *)

\* C2: with all three credentials present and no call raising, the report
\* model is invoked exactly once and run_full_research returns its output
\* unchanged.
C2_ReturnsReportOutput ==
    (pc = "done" /\ AllCredentialsPresent /\ NoRaise) =>
        /\ Cardinality(Calls("generate_content")) = 1
        /\ result = CallsAt("generate_content")[1].ret

C2_Witness ==
    /\ pc = "done" /\ AllCredentialsPresent /\ NoRaise
    /\ Len(summaries) = 3
    /\ result = <<"## Report">>

-----------------------------------------------------------------------------
(* C3 *)

\* exactly one search raised, the other two returned at least one result,
\* and no research-model call raised
C3_Case ==
    /\ ResearchReturned
    /\ Cardinality(Calls("tavily.search")) = 3
    /\ Cardinality({k \in Calls("tavily.search") : log[k].raised}) = 1
    /\ \A k \in Calls("tavily.search") : ~log[k].raised => log[k].n >= 1
    /\ \A k \in Calls("llm.invoke") : ~log[k].raised

\* C3: when the search raises for exactly one sub-query and returns results
\* for the other two, research_topic does not abort, the research model is
\* invoked exactly twice (for the two sub-queries that were searched
\* successfully), and the research text is those two summaries joined by
\* the separator; the failed sub-query contributes no summary.
C3_FailedSearchContributesNothing ==
    C3_Case =>
        /\ "research_topic" \notin handled
        /\ Cardinality(Calls("llm.invoke")) = 2
        /\ \A k \in Calls("llm.invoke") :
              \E j \in Calls("tavily.search") : log[j].q = log[k].q /\ ~log[j].raised
        /\ Len(Outputs) = 2
        /\ data = Outputs[1] \o Separator \o Outputs[2]

-----------------------------------------------------------------------------
(* C4 *)

\* all three searches returned, each with zero results
C4_Case ==
    /\ ResearchReturned
    /\ Cardinality(Calls("tavily.search")) = 3
    /\ \A k \in Calls("tavily.search") : ~log[k].raised /\ log[k].n = 0

\* C4: when every sub-query's search returns zero results, the research
\* model is never invoked, research_topic returns the literal "Could not
\* find sufficient information on the topic.", and the report model is
\* still invoked, once, with that literal as its research data.
C4_NothingFound ==
    C4_Case =>
        /\ Calls("llm.invoke") = {}
        /\ data = CouldNotFind
        /\ pc = "done" =>
              /\ Cardinality(Calls("generate_content")) = 1
              /\ Contains(CallsAt("generate_content")[1].arg, Embedded(CouldNotFind))

C4_Witness == C4_Case /\ pc = "done" /\ result = <<"## Report">>

-----------------------------------------------------------------------------
(* C5 *)

\* C5: a research-model call that raises ends the research run there: no
\* search and no research-model call follows it, research_topic catches the
\* error itself (nothing reaches run_full_research's except clause) and
\* returns "Research failed: <message>", which holds none of the summaries
\* collected for the earlier sub-queries.
C5_ModelFailureAbortsResearch ==
    \A k \in Calls("llm.invoke") : log[k].raised =>
        /\ \A j \in (k + 1)..Len(log) : log[j].site \notin {"tavily.search", "llm.invoke"}
        /\ pc \in {"report", "done"}
        /\ "research_topic" \in handled
        /\ "run_full_research" \notin handled
        /\ data = <<"Research failed", ": ">> \o log[k].ret
        /\ \A n \in 1..Len(summaries) : ~Contains(data, summaries[n])

\* the research model raised for the third sub-query, after two summaries
C5_Witness ==
    /\ \E k \in Calls("llm.invoke") : log[k].raised /\ log[k].q = 3
    /\ Len(summaries) = 2
    /\ pc = "done"

-----------------------------------------------------------------------------
(* C6 *)

\* C6: when the report-model call raises with message M, create_report
\* catches it: run_full_research returns "Report generation failed: M",
\* its own except clause is not taken and the result is not the
\* "# Research Failed" document.
C6_ReportFailureIsLocal ==
    \A k \in Calls("generate_content") : log[k].raised =>
        /\ pc = "done"
        /\ result = <<"Report generation failed", ": ">> \o log[k].ret
        /\ Contains(result, <<"Report generation failed">>)
        /\ Contains(result, log[k].ret)
        /\ "create_report" \in handled
        /\ "run_full_research" \notin handled
        /\ ~StartsWith(result, <<"# Research Failed">>)

C6_Witness ==
    /\ pc = "done"
    /\ \E k \in Calls("generate_content") : log[k].raised /\ log[k].ret = <<"fail">>
    /\ Len(summaries) = 3

-----------------------------------------------------------------------------
(* C7 *)

\* some credential is absent, the run is over, and nothing but the
\* credential check made construction fail
C7_Case ==
    /\ pc = "done"
    /\ \E key \in KeyNames : Absent(key)
    /\ QuietConstruction

\* C7 as claimed: when a credential is absent, the result is a "# Research
\* Failed" document whose message contains "Missing <KEY_NAME>" for an absent
\* key, and no search, research-model or report-model call is made.
C7_NamesTheMissingKey ==
    C7_Case =>
        /\ StartsWith(result, <<"# Research Failed">>)
        /\ \E key \in KeyNames : Absent(key) /\ Contains(result, <<"Missing ", key>>)
        /\ \A k \in 1..Len(log) : log[k].site \notin ProviderSites

\* the message of the configuration error for the absent credentials
C7_Message ==
    IF Absent("GROQ_API_KEY") \/ Absent("TAVILY_API_KEY")
    THEN <<"Missing ", "GROQ_API_KEY", " or ", "TAVILY_API_KEY">>
    ELSE <<"Missing ", "GEMINI_API_KEY">>

\* C7, amended: when a credential is absent, no search, research-model or
\* report-model call is ever made and run_full_research returns a
\* "# Research Failed" document; unless a lookup or a client constructor
\* raised first, its message is "Missing GROQ_API_KEY or TAVILY_API_KEY" when
\* the research-model key or the search key is absent (the same message for
\* both, whichever is absent) and "Missing GEMINI_API_KEY" otherwise.
C7_MissingCredential ==
    (\E key \in KeyNames : Absent(key)) =>
        /\ \A k \in 1..Len(log) : log[k].site \notin ProviderSites
        /\ pc \in {"not_started", "init_researcher", "init_analyst", "done"}
        /\ pc = "done" =>
              /\ StartsWith(result, <<"# Research Failed">>)
              /\ "run_full_research" \in handled
              /\ QuietConstruction =>
                    result = <<"# Research Failed", "\n\nAn unexpected error occurred: ">>
                                 \o C7_Message \o <<"\n">>

\* only the search key is absent (the secret store holds an empty value
\* that hides the environment's key)
C7_Witness ==
    /\ C7_Case
    /\ secrets["TAVILY_API_KEY"] = <<"">> /\ environ["TAVILY_API_KEY"] = <<"k">>
    /\ ~Absent("GROQ_API_KEY") /\ ~Absent("GEMINI_API_KEY")
    /\ Contains(result, <<"Missing ", "GROQ_API_KEY", " or ", "TAVILY_API_KEY">>)

-----------------------------------------------------------------------------
(* C8 *)

\* what C8 says research_topic returns
C8_Statement ==
    /\ {log[k].q : k \in Calls("llm.invoke")} = WithData
    /\ Len(Outputs) = Cardinality(WithData)
    /\ \A k, j \in Calls("llm.invoke") : k < j => log[k].q < log[j].q
    /\ data = Join(<<"\n\n---\n\n">>, Outputs)
    /\ (WithData = {1, 2, 3} /\ \A n \in 1..Len(Outputs) : Outputs[n] = <<"sum">>) =>
          data = <<"sum", "\n\n---\n\n", "sum", "\n\n---\n\n", "sum">>

-----------------------------------------------------------------------------
(* C9 *)

\* the state of the pipeline: construction of the agents comes before the
\* research starts; "failed" is a run that ended in run_full_research's
\* except clause
Phase(p, h) ==
    CASE p \in {"not_started", "init_researcher", "init_analyst"} -> "not started"
      [] p \in {"search", "invoke"} -> "research in progress"
      [] p = "report" -> "report in progress"
      [] p = "done" /\ "run_full_research" \in h -> "failed"
      [] p = "done" -> "done"
      [] OTHER -> "raised"

\* one step forward along the chain, or out of it to "failed"
PhaseSteps == {
    <<"not started", "research in progress">>,
    <<"research in progress", "report in progress">>,
    <<"report in progress", "done">>,
    <<"not started", "failed">>,
    <<"research in progress", "failed">>,
    <<"report in progress", "failed">> }

PhaseMove ==
    \/ Phase(pc', handled') = Phase(pc, handled)
    \/ <<Phase(pc, handled), Phase(pc', handled')>> \in PhaseSteps

\* the search and model calls of the run are made one after the other in
\* the order: search 1, [summary 1], search 2, [summary 2], search 3,
\* [summary 3], [report]
CallOrder ==
    /\ Cardinality(Calls("tavily.search")) <= 3
    /\ Cardinality(Calls("llm.invoke")) <= 3
    /\ Cardinality(Calls("generate_content")) <= 1
    /\ \A k \in 1..Len(CallsAt("tavily.search")) : CallsAt("tavily.search")[k].q = k
    /\ \A k \in Calls("tavily.search") : log[k].arg = Queries(topic)[log[k].q]
    /\ \A k \in Calls("llm.invoke") :
          /\ k > 1 /\ log[k - 1].site = "tavily.search" /\ log[k - 1].q = log[k].q
          /\ Contains(log[k].arg, <<"Query: ">> \o log[k - 1].arg)
    /\ \A k \in Calls("generate_content") : k = Len(log)
    /\ pc = "search" => qi = Cardinality(Calls("tavily.search")) + 1
    /\ pc = "invoke" => log[Len(log)].site = "tavily.search" /\ log[Len(log)].q = qi

\* C9: the pipeline only moves forward along not started -> research in
\* progress -> report in progress -> done, leaving the chain only to
\* "failed"; the searches are issued in sub-query order, each after the
\* previous sub-query's search and summary have returned; every
\* research-model call directly follows the search of its own sub-query; at
\* most three searches and three research-model calls are made; and the
\* report-model call, if any, comes after all of them.
C9_Sequential == [](CallOrder) /\ [][PhaseMove]_vars

C9_Witness ==
    /\ pc = "done"
    /\ Cardinality(Calls("tavily.search")) = 3
    /\ Cardinality(Calls("llm.invoke")) = 3
    /\ Cardinality(Calls("generate_content")) = 1
    /\ Phase(pc, handled) = "done"

-----------------------------------------------------------------------------
(* C10 *)

\* C10: once both agents are constructed, the run invokes the report model
\* exactly once, with whatever research_topic returned as its research data
\* (the failure sentinels included), and returns what create_report made of
\* that call; the research text itself is never the result.
C10_ReportAlwaysInvoked ==
    (Built /\ pc = "done") =>
        /\ Cardinality(Calls("generate_content")) = 1
        /\ LET c == CallsAt("generate_content")[1]
           IN  /\ Contains(c.arg, Embedded(data))
               /\ result = IF c.raised THEN <<"Report generation failed", ": ">> \o c.ret
                           ELSE c.ret
        /\ data # None
        /\ result # data
        /\ ~StartsWith(result, <<"Research failed">>)

\* the research failed and the report model was still given the sentinel
C10_Witness ==
    /\ Built /\ pc = "done"
    /\ data = <<"Research failed", ": ", "fail">>
    /\ result = <<"## Report">>

====
